---------------------------- MODULE Spec2Model ----------------------------
(***************************************************************************)
(* A model of sysbench's random number module, src/sysbench/sb_rand.c:     *)
(* initialisation of the process-wide distribution parameters, per-thread  *)
(* seeding of the bit generator, the uniform / gaussian / special / pareto *)
(* distributions, the mutex-protected unique-id counter and the random     *)
(* string formatter.                                                       *)
(*                                                                         *)
(* C's double is IEEE-754 binary64 with round-to-nearest-even; the 64-bit  *)
(* counter is unsigned long long.  Both are wider than the integers of the *)
(* model checker, so naturals wider than 31 bits are kept as little-endian *)
(* sequences of 15-bit limbs and doubles as a 53-bit significand with a    *)
(* binary exponent.  Every double operation is the exact result rounded.   *)
(***************************************************************************)
EXTENDS Integers, Sequences, FiniteSets, TLC

(***************************************************************************)
(* Wide naturals: <<l0, l1, ...>> is l0 + l1*2^15 + ..., no leading zero   *)
(* limb at the high end, zero is <<>>.                                     *)
(***************************************************************************)
LimbBits == 15

Limb == 2^LimbBits

RECURSIVE BN(_)
BN(n) == IF n = 0 THEN <<>> ELSE <<n % Limb>> \o BN(n \div Limb)

RECURSIVE BNorm(_)
BNorm(x) ==
  IF x = <<>> THEN <<>>
  ELSE IF x[Len(x)] = 0 THEN BNorm(SubSeq(x, 1, Len(x) - 1))
  ELSE x

RECURSIVE BAddC(_, _, _)
BAddC(x, y, c) ==
  IF x = <<>> /\ y = <<>> THEN (IF c = 0 THEN <<>> ELSE <<c>>)
  ELSE LET xd == IF x = <<>> THEN 0 ELSE Head(x)
           yd == IF y = <<>> THEN 0 ELSE Head(y)
           s  == xd + yd + c
       IN  <<s % Limb>> \o BAddC(IF x = <<>> THEN <<>> ELSE Tail(x),
                                 IF y = <<>> THEN <<>> ELSE Tail(y),
                                 s \div Limb)

BAdd(x, y) == BAddC(x, y, 0)

\* x - y for x >= y
RECURSIVE BSubC(_, _, _)
BSubC(x, y, c) ==
  IF x = <<>> THEN <<>>
  ELSE LET yd == IF y = <<>> THEN 0 ELSE Head(y)
           d  == Head(x) - yd - c
       IN  <<d % Limb>> \o BSubC(Tail(x),
                                 IF y = <<>> THEN <<>> ELSE Tail(y),
                                 IF d < 0 THEN 1 ELSE 0)

BSub(x, y) == BNorm(BSubC(x, y, 0))

\* x * d for 0 <= d < 2^15
RECURSIVE BMulSmallC(_, _, _)
BMulSmallC(x, d, c) ==
  IF x = <<>> THEN BN(c)
  ELSE LET p == Head(x) * d + c
       IN  <<p % Limb>> \o BMulSmallC(Tail(x), d, p \div Limb)

BMulSmall(x, d) == IF d = 0 THEN <<>> ELSE BMulSmallC(x, d, 0)

BShiftLimbs(x, k) == IF x = <<>> THEN <<>> ELSE [i \in 1..k |-> 0] \o x

RECURSIVE BMul(_, _)
BMul(x, y) ==
  IF x = <<>> \/ y = <<>> THEN <<>>
  ELSE BAdd(BMulSmall(x, Head(y)), BShiftLimbs(BMul(x, Tail(y)), 1))

\* -1, 0, 1 as x < y, x = y, x > y
RECURSIVE BCmpFrom(_, _, _)
BCmpFrom(x, y, i) ==
  IF i = 0 THEN 0
  ELSE IF x[i] < y[i] THEN -1
  ELSE IF x[i] > y[i] THEN 1
  ELSE BCmpFrom(x, y, i - 1)

BCmp(x, y) ==
  IF Len(x) < Len(y) THEN -1
  ELSE IF Len(x) > Len(y) THEN 1
  ELSE BCmpFrom(x, y, Len(x))

BLess(x, y) == BCmp(x, y) < 0

\* <<quotient, remainder>> of x by d, 0 < d < 2^15; the remainder is an integer
RECURSIVE BDivSmallFrom(_, _, _, _)
BDivSmallFrom(x, d, i, r) ==
  IF i = 0 THEN <<<<>>, r>>
  ELSE LET cur  == r * Limb + x[i]
           rest == BDivSmallFrom(x, d, i - 1, cur % d)
       IN  <<rest[1] \o <<cur \div d>>, rest[2]>>

BDivSmall(x, d) ==
  LET qr == BDivSmallFrom(x, d, Len(x), 0) IN <<BNorm(qr[1]), qr[2]>>

BModSmall(x, d) == BDivSmall(x, d)[2]

RECURSIVE IntBitLen(_)
IntBitLen(n) == IF n = 0 THEN 0 ELSE 1 + IntBitLen(n \div 2)

BBitLen(x) ==
  IF x = <<>> THEN 0 ELSE LimbBits * (Len(x) - 1) + IntBitLen(x[Len(x)])

\* x * 2^k
BShl(x, k) == BMulSmall(BShiftLimbs(x, k \div LimbBits), 2^(k % LimbBits))

\* floor(x / 2^k)
BShr(x, k) ==
  IF k \div LimbBits >= Len(x) THEN <<>>
  ELSE BDivSmall(SubSeq(x, (k \div LimbBits) + 1, Len(x)), 2^(k % LimbBits))[1]

BPow2(k) == BShl(<<1>>, k)

\* x mod 2^k
BLow(x, k) == BSub(x, BShl(BShr(x, k), k))

BIsOdd(x) == x # <<>> /\ x[1] % 2 = 1

\* the integer a wide natural below 2^31 stands for
RECURSIVE BToInt(_)
BToInt(x) == IF x = <<>> THEN 0 ELSE Head(x) + Limb * BToInt(Tail(x))

\* x mod m by repeated subtraction (used where x < 2m)
RECURSIVE BMod(_, _)
BMod(x, m) == IF BLess(x, m) THEN x ELSE BMod(BSub(x, m), m)

(***************************************************************************)
(* Doubles (non-negative, finite, normal): [m, e] is m * 2^e with          *)
(* 2^52 <= m < 2^53, and zero is [m |-> <<>>, e |-> 0].  The module's      *)
(* values stay far from the subnormal and the overflow range.              *)
(***************************************************************************)
MantBits == 53

DZero == [m |-> <<>>, e |-> 0]

\* the double nearest to M * 2^E, ties to the even significand
DRound(M, E) ==
  LET n == BBitLen(M) IN
  IF n = 0 THEN DZero
  ELSE IF n <= MantBits THEN [m |-> BShl(M, MantBits - n), e |-> E - (MantBits - n)]
  ELSE LET s    == n - MantBits
           q    == BShr(M, s)
           r    == BLow(M, s)
           c    == BCmp(r, BPow2(s - 1))
           up   == c > 0 \/ (c = 0 /\ BIsOdd(q))
           q2   == IF up THEN BAdd(q, <<1>>) ELSE q
       IN  IF BBitLen(q2) > MantBits
           THEN [m |-> BShr(q2, 1), e |-> E + s + 1]
           ELSE [m |-> q2, e |-> E + s]

\* (double) n for an unsigned integer n
DOfInt(n) == DRound(BN(n), 0)

DAdd(x, y) ==
  IF x.m = <<>> THEN y
  ELSE IF y.m = <<>> THEN x
  ELSE LET e == IF x.e < y.e THEN x.e ELSE y.e
       IN  DRound(BAdd(BShl(x.m, x.e - e), BShl(y.m, y.e - e)), e)

DLess(x, y) ==
  IF y.m = <<>> THEN FALSE
  ELSE IF x.m = <<>> THEN TRUE
  ELSE x.e < y.e \/ (x.e = y.e /\ BLess(x.m, y.m))

\* x - y for x >= y
DSub(x, y) ==
  IF y.m = <<>> THEN x
  ELSE LET e == IF x.e < y.e THEN x.e ELSE y.e
       IN  DRound(BSub(BShl(x.m, x.e - e), BShl(y.m, y.e - e)), e)

DMul(x, y) ==
  IF x.m = <<>> \/ y.m = <<>> THEN DZero
  ELSE DRound(BMul(x.m, y.m), x.e + y.e)

\* (uint32_t) x: the integer part of x (x below 2^31 here)
DTrunc(x) ==
  IF x.m = <<>> THEN 0
  ELSE IF x.e >= 0 THEN BToInt(BShl(x.m, x.e))
  ELSE BToInt(BShr(x.m, 0 - x.e))

\* x / y for an integer-valued divisor 0 < y < 2^15: the quotient is taken to
\* 16 bits past the significand, a sticky bit is appended for an inexact
\* quotient, and the result is rounded once
DDiv(x, y) ==
  IF x.m = <<>> THEN DZero
  ELSE LET d  == DTrunc(y)
           qr == BDivSmall(BShl(x.m, LimbBits + 1), d)
           st == IF qr[2] = 0 THEN <<>> ELSE <<1>>
       IN  DRound(BAdd(BShl(qr[1], 1), st), x.e - (LimbBits + 1) - 1)

(***************************************************************************)
(* Program constants.                                                      *)
(***************************************************************************)
\* #define LARGE_PRIME 2147483647
LARGE_PRIME == 2147483647

\* RAND_MAX of random(): it returns a value in 0 .. 2^31 - 1
RANDOM_MAX == 2147483647

\* UINT32_MAX, 2^32 - 1, as a wide natural
UINT32_MAX == BSub(BPow2(32), <<1>>)

\* the characters sb_rand_str tests for and draws between
CH_HASH == 35
CH_AT == 64
CH_0 == 48
CH_9 == 57
CH_a == 97
CH_z == 122

\* the value of a buffer position nothing has written yet
UNWRITTEN == 0 - 1

(***************************************************************************)
(* Bounds of the model.                                                    *)
(***************************************************************************)
\* worker threads beside the main thread 0
NWorkers == 1

\* calls of sb_rand_uniq the environment starts
MaxUniq == 4

\* longest template handed to sb_rand_str
MaxLen == 3

\* calls made after sb_rand_init when every operation is in play
MaxCalls == 3

Main == 0
Threads == 0..NWorkers

(***************************************************************************)
(* State.                                                                  *)
(***************************************************************************)
VARIABLES
  phase,            \* "start", "ready" (init returned 0), "failed" (1), "done"
  fatal,            \* LOG_FATAL messages written through log_text
  sb_rand_seed,     \* exported: the --rand-seed option
  rand_type,        \* static rand_dist_t rand_type
  rand_func,        \* static uint32_t (*rand_func)(uint32_t, uint32_t)
  rand_iter, rand_pct, rand_res,
  rand_iter_mult, rand_pct_mult, rand_pct_2_mult, rand_res_mult,
  pareto_h, pareto_power,
  rnd_seed,         \* static unsigned long long rnd_seed (a wide natural)
  rnd_mutex,        \* pthread_mutex_t: its state and, when locked, the holder
  sb_rng_state,     \* TLS sb_rng_state_t: per thread, two 64-bit words
  pc,               \* per thread: where it is inside sb_rand_uniq
  frame,            \* per thread: sb_rand_uniq's a, b and res
  reads,            \* history: every read of rnd_seed inside sb_rand_uniq
  buf,              \* per thread: the caller's buffer handed to sb_rand_str
  last,             \* history: the operation that completed last
  calls             \* history: calls made since sb_rand_init

params == <<rand_type, rand_func, rand_iter, rand_pct, rand_res,
            rand_iter_mult, rand_pct_mult, rand_pct_2_mult, rand_res_mult,
            pareto_h, pareto_power>>

uniqvars == <<rnd_seed, rnd_mutex, pc, frame, reads>>

vars == <<phase, fatal, sb_rand_seed, params, uniqvars, sb_rng_state, buf, last,
          calls>>

Mutex(st, by) == [st |-> st, by |-> by]

NoThread == 0 - 1

\* a 64-bit word as its two 32-bit halves: (hi << 32) | lo
U64(hi, lo) == <<hi, lo>>

ZeroState == <<U64(0, 0), U64(0, 0)>>

NoCall == [op |-> "none", t |-> Main, a |-> 0, b |-> 0, rnd |-> DZero,
           draws |-> <<>>, val |-> 0, branch |-> "", fmt |-> <<>>, old |-> <<>>]

\* statics and thread-local storage start zeroed
Init ==
  /\ phase = "start"
  /\ fatal = <<>>
  /\ sb_rand_seed = 0
  /\ rand_type = "DIST_TYPE_0"
  /\ rand_func = "NULL"
  /\ rand_iter = 0 /\ rand_pct = 0 /\ rand_res = 0
  /\ rand_iter_mult = DZero /\ rand_pct_mult = DZero
  /\ rand_pct_2_mult = DZero /\ rand_res_mult = DZero
  /\ pareto_h = DZero /\ pareto_power = DZero
  /\ rnd_seed = <<>>
  /\ rnd_mutex = Mutex("uninit", NoThread)
  /\ sb_rng_state = [t \in Threads |-> ZeroState]
  /\ pc = [t \in Threads |-> "idle"]
  /\ frame = [t \in Threads |-> [a |-> 0, b |-> 0, res |-> 0]]
  /\ reads = <<>>
  /\ buf = [t \in Threads |-> [i \in 1..(MaxLen + 1) |-> UNWRITTEN]]
  /\ last = NoCall
  /\ calls = 0

(***************************************************************************)
(* sb_rand_thread_init: four values of random(), each reduced modulo       *)
(* UINT32_MAX, composed into the two words of the calling thread.          *)
(***************************************************************************)
\* ((uint64_t) r) % UINT32_MAX
ModUint32Max(r) == BToInt(BMod(BN(r), UINT32_MAX))

SeedState(r) ==
  <<U64(ModUint32Max(r[1]), ModUint32Max(r[2])),
    U64(ModUint32Max(r[3]), ModUint32Max(r[4]))>>

\* sb_rng_state without TLS: one state shared by every thread
thread_init_state_shared(st, t, r) == [u \in DOMAIN st |-> SeedState(r)]

thread_init_state(st, t, r) == [st EXCEPT ![t] = SeedState(r)]

sb_rand_thread_init(t, r) ==
  /\ phase = "ready"
  /\ sb_rng_state' = thread_init_state(sb_rng_state, t, r)
  /\ last' = [NoCall EXCEPT !.op = "thread_init", !.t = t, !.draws = r]
  /\ UNCHANGED <<phase, fatal, sb_rand_seed, params, uniqvars, buf>>

(***************************************************************************)
(* sb_rand_init.  c is the resolved configuration: rand-type, rand-seed,   *)
(* rand-spec-iter, rand-spec-pct, rand-spec-res and rand-pareto-h; r holds *)
(* the four values random() returns while the main thread is seeded.       *)
(***************************************************************************)
DistTypes == {"uniform", "gaussian", "special", "pareto"}

TypeOf(s) ==
  CASE s = "uniform"  -> "DIST_TYPE_UNIFORM"
    [] s = "gaussian" -> "DIST_TYPE_GAUSSIAN"
    [] s = "special"  -> "DIST_TYPE_SPECIAL"
    [] s = "pareto"   -> "DIST_TYPE_PARETO"

FuncOf(s) ==
  CASE s = "uniform"  -> "sb_rand_uniform"
    [] s = "gaussian" -> "sb_rand_gaussian"
    [] s = "special"  -> "sb_rand_special"
    [] s = "pareto"   -> "sb_rand_pareto"

\* log(h) / log(1.0 - h): libm's result, kept symbolic
ParetoPower(h) == [log_ratio_of |-> h]

init_fails(c) == c.type \notin DistTypes

\* log_text(LOG_FATAL, "Invalid random numbers distribution: %s.", s); return 1;
init_halt(c) ==
  /\ fatal' = Append(fatal, <<"Invalid random numbers distribution", c.type>>)
  /\ phase' = "failed"
  /\ last' = [NoCall EXCEPT !.op = "init", !.branch = c.type, !.val = 1]
  /\ UNCHANGED <<params, uniqvars, sb_rng_state, buf>>

\* the distribution's branch of the if / else if chain
init_bind(c) ==
  /\ rand_type' = TypeOf(c.type)
  /\ rand_func' = FuncOf(c.type)

\* everything after the chain, down to return 0
init_rest(c, r) ==
  /\ rand_iter' = c.iter
  /\ rand_iter_mult' = DDiv(DOfInt(1), DOfInt(c.iter))
  /\ rand_pct' = c.pct
  /\ rand_pct_mult' = DDiv(DOfInt(c.pct), DOfInt(100))
  /\ rand_pct_2_mult' = DDiv(DOfInt(c.pct), DOfInt(200))
  /\ rand_res' = c.res
  /\ rand_res_mult' = DDiv(DOfInt(100), DSub(DOfInt(100), DOfInt(c.res)))
  /\ pareto_h' = c.h
  /\ pareto_power' = ParetoPower(c.h)
  /\ rnd_seed' = BN(LARGE_PRIME)
  /\ rnd_mutex' = Mutex("unlocked", NoThread)
  /\ sb_rng_state' = thread_init_state(sb_rng_state, Main, r)
  /\ phase' = "ready"
  /\ last' = [NoCall EXCEPT !.op = "init", !.branch = c.type, !.val = 0]
  /\ UNCHANGED <<pc, frame, reads, buf>>

\* sb_rand_init with the return 1 of the else branch left out
sb_rand_init_no_return(c, r) ==
  /\ phase = "start"
  /\ sb_rand_seed' = c.seed
  /\ IF init_fails(c)
     THEN /\ fatal' = Append(fatal, <<"Invalid random numbers distribution", c.type>>)
          /\ UNCHANGED <<rand_type, rand_func>>
          /\ init_rest(c, r)
     ELSE init_bind(c) /\ UNCHANGED fatal /\ init_rest(c, r)

sb_rand_init(c, r) ==
  /\ phase = "start"
  /\ sb_rand_seed' = c.seed
  /\ IF init_fails(c)
     THEN init_halt(c)
     ELSE init_bind(c) /\ UNCHANGED fatal /\ init_rest(c, r)

\* sb_rand_done: pthread_mutex_destroy, with no thread inside sb_rand_uniq
sb_rand_done ==
  /\ phase = "ready"
  /\ \A t \in Threads : pc[t] = "idle"
  /\ rnd_mutex' = Mutex("destroyed", NoThread)
  /\ phase' = "done"
  /\ last' = [NoCall EXCEPT !.op = "done"]
  /\ UNCHANGED <<fatal, sb_rand_seed, params, rnd_seed, pc, frame, reads,
                 sb_rng_state, buf>>

(***************************************************************************)
(* The bit generator, sb_rand_uniform_double(): one step of the calling    *)
(* thread's generator returns a double k * 2^-52 in [0, 1) and leaves the  *)
(* thread's two words in a new state.  A call that draws is given the      *)
(* value of each draw and the state s2 the last step leaves.               *)
(***************************************************************************)
\* k * 2^-52 for a wide natural k < 2^52
Draw(k) == DRound(k, 0 - 52)

D_ZERO == Draw(<<>>)
D_MIN == Draw(<<1>>)
D_QUARTER == Draw(BPow2(50))
D_HALF == Draw(BPow2(51))
D_3QUARTER == Draw(BAdd(BPow2(51), BPow2(50)))
D_MAX == Draw(BSub(BPow2(52), <<1>>))

D_ONE == DOfInt(1)

rng_step(st, t, ndraws, s2) == IF ndraws = 0 THEN st ELSE [st EXCEPT ![t] = s2]

(***************************************************************************)
(* The distributions, as functions of the range and of the draws.          *)
(***************************************************************************)
\* b - a + 1 in uint32_t arithmetic, for a <= b
Width(a, b) == b - a + 1

\* return a + sb_rand_uniform_double() * (b - a + 1);
uniform_value(a, b, rnd) ==
  DTrunc(DAdd(DOfInt(a), DMul(rnd, DOfInt(Width(a, b)))))

\* for (i=0, sum=0; i < rand_iter; i++) sum += sb_rand_uniform_double() * t;
RECURSIVE gaussian_sum(_, _, _)
gaussian_sum(draws, i, t) ==
  IF i = 0 THEN DZero
  ELSE DAdd(gaussian_sum(draws, i - 1, t), DMul(draws[i], t))

\* return a + (uint32_t) (sum * rand_iter_mult);
gaussian_value(a, b, draws) ==
  LET t   == DOfInt(Width(a, b))
      sum == gaussian_sum(draws, rand_iter, t)
  IN  a + DTrunc(DMul(sum, rand_iter_mult))

\* for (i = 0; i < rand_iter; i++) sum += sb_rand_uniform_double();
RECURSIVE special_sum(_, _)
special_sum(draws, i) ==
  IF i = 0 THEN DZero ELSE DAdd(special_sum(draws, i - 1), draws[i])

\* res < t, with res = rnd * (t * rand_res_mult) and t = b - a
special_cold(a, b, rnd) ==
  LET t == DOfInt(b - a)
  IN  DLess(DMul(rnd, DMul(t, rand_res_mult)), t)

\* the cold branch with the division by rand_iter left out
special_cold_value_no_mean(a, b, draws) ==
  LET t   == DOfInt(b - a)
      sum == special_sum(draws, rand_iter)
  IN  DTrunc(DAdd(DOfInt(a), DMul(sum, t)))

\* return a + sum * t * rand_iter_mult;
special_cold_value(a, b, draws) ==
  LET t   == DOfInt(b - a)
      sum == special_sum(draws, rand_iter)
  IN  DTrunc(DAdd(DOfInt(a), DMul(DMul(sum, t), rand_iter_mult)))

\* the hot branch with sb_rand_gaussian's t = b - a + 1
special_hot_value_width(a, b, rnd) ==
  LET t   == DOfInt(Width(a, b))
      d   == DMul(t, rand_pct_mult)
      res == DAdd(DMul(rnd, DAdd(d, D_ONE)),
                  DSub(DDiv(t, DOfInt(2)), DMul(t, rand_pct_2_mult)))
  IN  a + DTrunc(res)

\* d = t * rand_pct_mult; res = rnd * (d + 1);
\* res += t / 2 - t * rand_pct_2_mult; return a + (uint32_t) res;
special_hot_value(a, b, rnd) ==
  LET t   == DOfInt(b - a)
      d   == DMul(t, rand_pct_mult)
      res == DAdd(DMul(rnd, DAdd(d, D_ONE)),
                  DSub(DDiv(t, DOfInt(2)), DMul(t, rand_pct_2_mult)))
  IN  a + DTrunc(res)

special_value(a, b, rnd, draws) ==
  IF special_cold(a, b, rnd) THEN special_cold_value(a, b, draws)
  ELSE special_hot_value(a, b, rnd)

\* return a + (uint32_t) ((b - a + 1) * pow(sb_rand_uniform_double(), pareto_power));
\* pw is what pow returns: a double in [0, 1] for a base in [0, 1) and a
\* positive exponent
pareto_value(a, b, pw) == a + DTrunc(DMul(DOfInt(Width(a, b)), pw))

(***************************************************************************)
(* The generation entry points, called by thread t.                        *)
(***************************************************************************)
GenFrame == UNCHANGED <<phase, fatal, sb_rand_seed, params, uniqvars, buf>>

sb_rand_uniform(t, a, b, rnd, s2) ==
  /\ phase = "ready"
  /\ sb_rng_state' = rng_step(sb_rng_state, t, 1, s2)
  /\ last' = [NoCall EXCEPT !.op = "uniform", !.t = t, !.a = a, !.b = b,
                            !.rnd = rnd, !.val = uniform_value(a, b, rnd)]
  /\ GenFrame

sb_rand_gaussian(t, a, b, draws, s2) ==
  /\ phase = "ready"
  /\ Len(draws) = rand_iter
  /\ sb_rng_state' = rng_step(sb_rng_state, t, rand_iter, s2)
  /\ last' = [NoCall EXCEPT !.op = "gaussian", !.t = t, !.a = a, !.b = b,
                            !.draws = draws, !.val = gaussian_value(a, b, draws)]
  /\ GenFrame

sb_rand_special(t, a, b, rnd, draws, s2) ==
  /\ phase = "ready"
  /\ Len(draws) = IF special_cold(a, b, rnd) THEN rand_iter ELSE 0
  /\ sb_rng_state' = rng_step(sb_rng_state, t, 1, s2)
  /\ last' = [NoCall EXCEPT !.op = "special", !.t = t, !.a = a, !.b = b,
                            !.rnd = rnd, !.draws = draws,
                            !.branch = IF special_cold(a, b, rnd) THEN "cold" ELSE "hot",
                            !.val = special_value(a, b, rnd, draws)]
  /\ GenFrame

sb_rand_pareto(t, a, b, pw, s2) ==
  /\ phase = "ready"
  /\ sb_rng_state' = rng_step(sb_rng_state, t, 1, s2)
  /\ last' = [NoCall EXCEPT !.op = "pareto", !.t = t, !.a = a, !.b = b,
                            !.rnd = pw, !.val = pareto_value(a, b, pw)]
  /\ GenFrame

\* return rand_func(a,b);
sb_rand_default(t, a, b, rnd, draws, s2) ==
  /\ phase = "ready"
  /\ Len(draws) = CASE rand_func = "sb_rand_gaussian" -> rand_iter
                    [] rand_func = "sb_rand_special" ->
                         (IF special_cold(a, b, rnd) THEN rand_iter ELSE 0)
                    [] OTHER -> 0
  /\ sb_rng_state' = rng_step(sb_rng_state, t, 1, s2)
  /\ last' = [NoCall EXCEPT
                !.op = "default", !.t = t, !.a = a, !.b = b,
                !.rnd = IF rand_func = "sb_rand_gaussian" THEN DZero ELSE rnd,
                !.draws = draws,
                !.branch = rand_func,
                !.val = CASE rand_func = "sb_rand_uniform" -> uniform_value(a, b, rnd)
                          [] rand_func = "sb_rand_gaussian" -> gaussian_value(a, b, draws)
                          [] rand_func = "sb_rand_special" -> special_value(a, b, rnd, draws)
                          [] rand_func = "sb_rand_pareto" -> pareto_value(a, b, rnd)]
  /\ GenFrame

(***************************************************************************)
(* sb_rand_uniq, statement by statement: other threads run in between.     *)
(***************************************************************************)
\* sb_rand_uniq without the lock
mutex_free_nolock(t) == TRUE

\* pthread_mutex_lock(&rnd_mutex) returns to t only while no thread holds it
mutex_free(t) == rnd_mutex.st = "unlocked"

\* calls of sb_rand_uniq entered so far
UniqCalls == Len(reads) + Cardinality({t \in Threads : pc[t] = "locked"})

UniqFrame == UNCHANGED <<phase, fatal, sb_rand_seed, params, sb_rng_state, buf>>

uniq_lock(t, a, b) ==
  /\ phase = "ready"
  /\ pc[t] = "idle"
  /\ UniqCalls < MaxUniq
  /\ mutex_free(t)
  /\ rnd_mutex' = Mutex("locked", t)
  /\ frame' = [frame EXCEPT ![t] = [a |-> a, b |-> b, res |-> 0]]
  /\ pc' = [pc EXCEPT ![t] = "locked"]
  /\ last' = [NoCall EXCEPT !.op = "uniq_lock", !.t = t, !.a = a, !.b = b]
  /\ UNCHANGED <<rnd_seed, reads>>
  /\ UniqFrame

\* (uint32_t) (rnd_seed % (b - a + 1))
uniq_res(seed, a, b) == BModSmall(seed, Width(a, b))

\* res = (uint32_t) (rnd_seed % (b - a + 1));
uniq_read(t) ==
  /\ pc[t] = "locked"
  /\ frame' = [frame EXCEPT ![t].res = uniq_res(rnd_seed, frame[t].a, frame[t].b)]
  /\ reads' = Append(reads, [t |-> t, a |-> frame[t].a, b |-> frame[t].b,
                             seed |-> rnd_seed,
                             val |-> uniq_res(rnd_seed, frame[t].a, frame[t].b)
                                       + frame[t].a])
  /\ pc' = [pc EXCEPT ![t] = "read"]
  /\ last' = [NoCall EXCEPT !.op = "uniq_read", !.t = t, !.a = frame[t].a,
                            !.b = frame[t].b]
  /\ UNCHANGED <<rnd_seed, rnd_mutex>>
  /\ UniqFrame

\* an even increment, 2147483648, in place of LARGE_PRIME
seed_advance_even(seed) == BLow(BAdd(seed, BPow2(31)), 64)

\* rnd_seed + LARGE_PRIME in unsigned long long arithmetic
seed_advance(seed) == BLow(BAdd(seed, BN(LARGE_PRIME)), 64)

\* rnd_seed += LARGE_PRIME;
uniq_add(t) ==
  /\ pc[t] = "read"
  /\ rnd_seed' = seed_advance(rnd_seed)
  /\ pc' = [pc EXCEPT ![t] = "added"]
  /\ last' = [NoCall EXCEPT !.op = "uniq_add", !.t = t, !.a = frame[t].a,
                            !.b = frame[t].b]
  /\ UNCHANGED <<rnd_mutex, frame, reads>>
  /\ UniqFrame

\* pthread_mutex_unlock(&rnd_mutex); return res + a;
uniq_unlock(t) ==
  /\ pc[t] = "added"
  /\ rnd_mutex' = Mutex("unlocked", NoThread)
  /\ pc' = [pc EXCEPT ![t] = "idle"]
  /\ last' = [NoCall EXCEPT !.op = "uniq", !.t = t, !.a = frame[t].a,
                            !.b = frame[t].b, !.val = frame[t].res + frame[t].a]
  /\ UNCHANGED <<rnd_seed, frame, reads>>
  /\ UniqFrame

(***************************************************************************)
(* sb_rand_str(fmt, buf): fmt is the template without its terminating      *)
(* '\0', buf[t] the caller's buffer; draws holds one draw per '#' or '@'.  *)
(***************************************************************************)
Placeholders(fmt, i) == Cardinality({j \in 1..i : fmt[j] \in {CH_HASH, CH_AT}})

str_char(fmt, i, draws) ==
  IF fmt[i] = CH_HASH THEN uniform_value(CH_0, CH_9, draws[Placeholders(fmt, i)])
  ELSE IF fmt[i] = CH_AT THEN uniform_value(CH_a, CH_z, draws[Placeholders(fmt, i)])
  ELSE fmt[i]

str_fill(fmt, old, draws) ==
  [i \in 1..Len(old) |-> IF i <= Len(fmt) THEN str_char(fmt, i, draws) ELSE old[i]]

sb_rand_str(t, fmt, draws, s2) ==
  /\ phase = "ready"
  /\ Len(draws) = Placeholders(fmt, Len(fmt))
  /\ buf' = [buf EXCEPT ![t] = str_fill(fmt, buf[t], draws)]
  /\ sb_rng_state' = rng_step(sb_rng_state, t, Len(draws), s2)
  /\ last' = [NoCall EXCEPT !.op = "str", !.t = t, !.fmt = fmt, !.draws = draws,
                            !.old = buf[t]]
  /\ UNCHANGED <<phase, fatal, sb_rand_seed, params, uniqvars>>

(***************************************************************************)
(* Inputs.                                                                 *)
(***************************************************************************)
H_DEFAULT == DDiv(DOfInt(1), DOfInt(5))

Config(type, iter, pct, res) ==
  [type |-> type, seed |-> 0, iter |-> iter, pct |-> pct, res |-> res, h |-> H_DEFAULT]

\* sequences of length 0..n over S
SeqsUpTo(S, n) == UNION {[1..k -> S] : k \in 0..n}

\* the states a step of the generator may leave
RngSucc == {<<U64(1, 2), U64(3, 4)>>}

SeedsSmall == {<<0, 0, 0, 0>>, <<1, 0, RANDOM_MAX, 2>>}

\* template characters that are neither '#' nor '@': '-'
Literals == {45}

(***************************************************************************)
(* The whole module: after sb_rand_init, the main thread and one worker    *)
(* make up to MaxCalls calls of any operation, in any interleaving.        *)
(***************************************************************************)
ConfigsAll == {Config(ty, 1, 1, 75) : ty \in DistTypes \cup {"zipf"}}
ThreadsAll == {Main, 1}
RangesAll == {<<1, 2>>}
DrawsAll == {D_HALF}
TemplatesAll == {<<CH_HASH, c>> : c \in Literals}

Call(A) == calls < MaxCalls /\ calls' = calls + 1 /\ A

Step(A) == A /\ UNCHANGED calls

\* the one call made after sb_rand_init where a single operation is studied
Once(A) == calls = 0 /\ calls' = 1 /\ A

Next ==
  \/ \E c \in ConfigsAll, r \in SeedsSmall : Step(sb_rand_init(c, r))
  \/ \E t \in ThreadsAll, r \in SeedsSmall : Call(sb_rand_thread_init(t, r))
  \/ \E t \in ThreadsAll, ab \in RangesAll, rnd \in DrawsAll, s2 \in RngSucc :
       Call(sb_rand_uniform(t, ab[1], ab[2], rnd, s2))
  \/ \E t \in ThreadsAll, ab \in RangesAll, rnd \in DrawsAll, s2 \in RngSucc :
       Call(sb_rand_pareto(t, ab[1], ab[2], rnd, s2))
  \/ \E t \in ThreadsAll, ab \in RangesAll, s2 \in RngSucc :
       \E draws \in SeqsUpTo(DrawsAll, rand_iter) :
         Call(sb_rand_gaussian(t, ab[1], ab[2], draws, s2))
  \/ \E t \in ThreadsAll, ab \in RangesAll, rnd \in DrawsAll, s2 \in RngSucc :
       \E draws \in SeqsUpTo(DrawsAll, rand_iter) :
         Call(sb_rand_special(t, ab[1], ab[2], rnd, draws, s2))
  \/ \E t \in ThreadsAll, ab \in RangesAll, rnd \in DrawsAll, s2 \in RngSucc :
       \E draws \in SeqsUpTo(DrawsAll, rand_iter) :
         Call(sb_rand_default(t, ab[1], ab[2], rnd, draws, s2))
  \/ \E t \in ThreadsAll, fmt \in TemplatesAll, s2 \in RngSucc :
       \E draws \in SeqsUpTo(DrawsAll, Len(fmt)) :
         Call(sb_rand_str(t, fmt, draws, s2))
  \/ \E t \in ThreadsAll, ab \in RangesAll : Call(uniq_lock(t, ab[1], ab[2]))
  \/ \E t \in ThreadsAll : Step(uniq_read(t))
  \/ \E t \in ThreadsAll : Step(uniq_add(t))
  \/ \E t \in ThreadsAll : Step(uniq_unlock(t))
  \/ Step(sb_rand_done)

Spec == Init /\ [][Next]_vars

(***************************************************************************)
(* The distributions alone: the main thread calls sb_rand_uniform,         *)
(* sb_rand_gaussian and sb_rand_special over wider inputs.                 *)
(***************************************************************************)
ConfigsGen ==
  {Config("special", 1, 1, 75), Config("special", 1, 100, 0),
   Config("special", 1, 100, 99), Config("special", 1, 50, 50),
   Config("special", 1, 0, 75),
   Config("special", 2, 1, 75), Config("special", 2, 100, 99),
   Config("special", 5, 1, 75), Config("special", 5, 100, 0)}
RangesGen == {<<2, 2>>, <<0, 1>>, <<0, 4>>, <<3, 7>>, <<32, 47>>, <<5, 104>>,
              <<1073741824, 2147483391>>}
DrawsGen == {D_ZERO, D_MIN, D_QUARTER, D_HALF, D_3QUARTER, D_MAX}
DrawsLoop == {D_ZERO, D_3QUARTER, D_MAX}
SeedGen == <<1, 0, RANDOM_MAX, 2>>

NextGen ==
  \/ \E c \in ConfigsGen : Step(sb_rand_init(c, SeedGen))
  \/ \E ab \in RangesGen, rnd \in DrawsGen, s2 \in RngSucc :
       Once(sb_rand_uniform(Main, ab[1], ab[2], rnd, s2))
  \/ \E ab \in RangesGen, s2 \in RngSucc :
       \E draws \in [1..rand_iter -> DrawsLoop] :
         Once(sb_rand_gaussian(Main, ab[1], ab[2], draws, s2))
  \/ \E ab \in RangesGen, rnd \in DrawsGen, s2 \in RngSucc :
       \E draws \in [1..rand_iter -> DrawsLoop] \cup {<<>>} :
         Once(sb_rand_special(Main, ab[1], ab[2], rnd, draws, s2))

SpecGen == Init /\ [][NextGen]_vars

(***************************************************************************)
(* The unique counter alone: every thread calls sb_rand_uniq.              *)
(***************************************************************************)
RangesUniq == {<<0, 1>>, <<1, 3>>}

NextUniq ==
  \/ Step(sb_rand_init(Config("special", 12, 1, 75), SeedGen))
  \/ \E t \in Threads, ab \in RangesUniq : Step(uniq_lock(t, ab[1], ab[2]))
  \/ \E t \in Threads : Step(uniq_read(t))
  \/ \E t \in Threads : Step(uniq_add(t))
  \/ \E t \in Threads : Step(uniq_unlock(t))

SpecUniq == Init /\ [][NextUniq]_vars

(***************************************************************************)
(* The string formatter alone: templates of up to MaxLen characters.       *)
(***************************************************************************)
TemplateChars == {CH_HASH, CH_AT} \cup Literals
DrawsStr == {D_ZERO, D_HALF, D_MAX}

NextStr ==
  \/ Step(sb_rand_init(Config("special", 12, 1, 75), SeedGen))
  \/ \E fmt \in SeqsUpTo(TemplateChars, MaxLen), s2 \in RngSucc :
       \E draws \in SeqsUpTo(DrawsStr, Len(fmt)) :
         Once(sb_rand_str(Main, fmt, draws, s2))

SpecStr == Init /\ [][NextStr]_vars

(***************************************************************************)
(* Seeding alone: random() may return any value in 0 .. RANDOM_MAX.        *)
(***************************************************************************)
RandomVals == {0, 1, RANDOM_MAX}

NextSeed ==
  \/ \E c \in ConfigsAll, r \in [1..4 -> RandomVals] : Step(sb_rand_init(c, r))
  \/ \E t \in ThreadsAll, r \in [1..4 -> RandomVals] :
       Once(sb_rand_thread_init(t, r))

SpecSeed == Init /\ [][NextSeed]_vars
(***************************************************************************)
(* Properties.                                                             *)
(***************************************************************************)
\* n * LARGE_PRIME modulo 2^64
PrimeTimes(n) == BLow(BMul(BN(LARGE_PRIME), BN(n)), 64)

\* calls of sb_rand_uniq that have executed rnd_seed += LARGE_PRIME
AddsDone == Len(reads) - Cardinality({t \in Threads : pc[t] = "read"})

\* C1: whatever the interleaving of the threads inside sb_rand_uniq, no two
\* calls read the same value of rnd_seed, the i-th read sees i * LARGE_PRIME,
\* and after k additions rnd_seed is (k + 1) * LARGE_PRIME modulo 2^64.
C1_UniqSerialized ==
  /\ \A i, j \in 1..Len(reads) : i < j => reads[i].seed # reads[j].seed
  /\ \A i \in 1..Len(reads) : reads[i].seed = PrimeTimes(i)
  /\ phase = "ready" => rnd_seed = PrimeTimes(AddsDone + 1)

\* three calls by two threads have completed
C1_Witness ==
  /\ Len(reads) = 3
  /\ \A t \in Threads : pc[t] = "idle"
  /\ \E i, j \in 1..3 : reads[i].t # reads[j].t
  /\ last.op = "uniq"

\* C2: sb_rand_str leaves a digit where the template has '#', a lowercase
\* letter where it has '@', the template's character elsewhere, and does not
\* touch the buffer from the template's length on.
C2_StrFormat ==
  last.op = "str" =>
    \A i \in 1..Len(buf[last.t]) :
      LET ch == buf[last.t][i] IN
      IF i > Len(last.fmt) THEN ch = last.old[i]
      ELSE IF last.fmt[i] = CH_HASH THEN CH_0 <= ch /\ ch <= CH_9
      ELSE IF last.fmt[i] = CH_AT THEN CH_a <= ch /\ ch <= CH_z
      ELSE ch = last.fmt[i]

\* C3: sb_rand_uniform(a, b) returns a value in [a, b].
C3_UniformInRange ==
  last.op = "uniform" => last.a <= last.val /\ last.val <= last.b

\* C4: sb_rand_gaussian(a, b) returns a value in [a, b].
C4_GaussianInRange ==
  last.op = "gaussian" => last.a <= last.val /\ last.val <= last.b

\* C5: sb_rand_special(a, b) returns a value in [a, b], on the cold and on
\* the hot branch, for rand_pct in 0..100 and rand_res in 0..99.
C5_SpecialInRange ==
  last.op = "special" => last.a <= last.val /\ last.val <= last.b

\* the hot branch with rand_pct = 100 reaches b, and not beyond
C5_Witness ==
  /\ last.op = "special" /\ last.branch = "hot"
  /\ rand_pct = 100 /\ last.rnd = D_MAX
  /\ last.a < last.b /\ last.val = last.b

\* C6: sb_rand_init with an unknown rand-type logs a fatal error, returns 1
\* and has bound no function, computed no parameter, initialised neither the
\* counter nor its mutex, and seeded no thread.
C6_FailedInitHalts ==
  (last.op = "init" /\ last.branch \notin DistTypes) =>
    /\ last.val = 1 /\ phase = "failed"
    /\ fatal = <<<<"Invalid random numbers distribution", last.branch>>>>
    /\ rand_func = "NULL" /\ rand_type = "DIST_TYPE_0"
    /\ rand_iter = 0 /\ rand_pct = 0 /\ rand_res = 0
    /\ rand_iter_mult = DZero /\ rand_pct_mult = DZero
    /\ rand_pct_2_mult = DZero /\ rand_res_mult = DZero
    /\ pareto_h = DZero /\ pareto_power = DZero
    /\ rnd_seed = <<>> /\ rnd_mutex.st = "uninit"
    /\ sb_rng_state[Main] = ZeroState

C6_Witness == phase = "failed" /\ last.op = "init" /\ last.branch = "zipf"

\* C7: after sb_rand_thread_init the calling thread's two words are not both
\* zero (sb_rand_init seeds the main thread the same way).
C7_SeedNonZero ==
  /\ last.op = "thread_init" => sb_rng_state[last.t] # ZeroState
  /\ (last.op = "init" /\ last.val = 0) => sb_rng_state[Main] # ZeroState

GenOps == {"uniform", "gaussian", "special", "pareto", "default", "str"}
UniqOps == {"uniq_lock", "uniq_read", "uniq_add", "uniq"}

\* C8: a generation call or a seed call by thread t leaves the other
\* threads' generator state, rnd_seed and the distribution parameters as
\* they were; the steps of sb_rand_uniq leave every generator state and the
\* parameters as they were; only sb_rand_init writes the parameters.
C8_Frame ==
  [][ /\ last'.op \in GenOps \cup {"thread_init"} =>
           /\ \A u \in Threads \ {last'.t} : sb_rng_state'[u] = sb_rng_state[u]
           /\ rnd_seed' = rnd_seed
           /\ params' = params
      /\ last'.op \in UniqOps => sb_rng_state' = sb_rng_state /\ params' = params
      /\ last'.op # "init" => params' = params ]_vars

\* the worker draws after the main thread was seeded and the counter advanced
C8_Witness ==
  /\ last.op \in GenOps /\ last.t = 1
  /\ sb_rng_state[1] \in RngSucc
  /\ sb_rng_state[Main] = SeedState(<<1, 0, RANDOM_MAX, 2>>)
  /\ rnd_seed = PrimeTimes(2)

\* C9, the equality: on the cold branch sb_rand_special returns what
\* sb_rand_gaussian returns for the same a, b, rand_iter and draws.
C9_ColdEqualsGaussian ==
  (last.op = "special" /\ last.branch = "cold") =>
    last.val = gaussian_value(last.a, last.b, last.draws)

\* the draw d = k * 2^-52 as the wide natural k
DrawK(d) == IF d.m = <<>> THEN <<>> ELSE BShr(d.m, 0 - (d.e + 52))

RECURSIVE DrawKSum(_, _)
DrawKSum(draws, i) ==
  IF i = 0 THEN <<>> ELSE BAdd(DrawKSum(draws, i - 1), DrawK(draws[i]))

\* C9, the scaled mean: on the cold branch sb_rand_special returns a value v
\* of [a, b] that is the integer part of a + mean up to the rounding of the
\* double operations, mean - 1 - 2^-10 < v - a <= mean + 2^-10, where mean is
\* the exact mean of the rand_iter draws times b - a (and not times the
\* width b - a + 1 sb_rand_gaussian scales by).
C9_ColdIsScaledMean ==
  (last.op = "special" /\ last.branch = "cold") =>
    LET D   == BMul(BN(rand_iter), BPow2(52))
        E   == BMul(DrawKSum(last.draws, rand_iter), BN(last.b - last.a))
        D10 == BMul(D, BPow2(10))
        E10 == BMul(E, BPow2(10))
        v   == last.val - last.a
    IN  /\ last.a <= last.val /\ last.val <= last.b
        /\ ~BLess(BAdd(E10, D), BMul(BN(v), D10))
        /\ BLess(E10, BAdd(BMul(BN(v + 1), D10), D))

\* a cold call whose value is below sb_rand_gaussian's
C9_Witness ==
  /\ last.op = "special" /\ last.branch = "cold"
  /\ last.val < gaussian_value(last.a, last.b, last.draws)

RECURSIVE GCD(_, _)
GCD(x, y) == IF y = 0 THEN x ELSE GCD(y, x % y)

\* C10: w = b - a + 1 consecutive reads of the counter for one range (a, b)
\* with w coprime to LARGE_PRIME return pairwise distinct values of [a, b],
\* whichever threads make them.
C10_WindowDistinct ==
  \A i \in 1..Len(reads) :
    LET a == reads[i].a
        b == reads[i].b
        w == Width(a, b)
        win == i..(i + w - 1)
    IN  (/\ i + w - 1 <= Len(reads)
         /\ GCD(LARGE_PRIME, w) = 1
         /\ \A j \in win : reads[j].a = a /\ reads[j].b = b)
        => /\ \A j \in win : a <= reads[j].val /\ reads[j].val <= b
           /\ \A j, k \in win : j < k => reads[j].val # reads[k].val

\* three consecutive calls over (1, 3), by two threads, returned 1, 2 and 3
C10_Witness ==
  /\ Len(reads) >= 3
  /\ \A j \in 1..3 : reads[j].a = 1 /\ reads[j].b = 3
  /\ {reads[j].val : j \in 1..3} = {1, 2, 3}
  /\ \E i, j \in 1..3 : reads[i].t # reads[j].t
=============================================================================
